---- MODULE Spec2Model ----
(***************************************************************************)
(* A model of the card game engine of src/main.py: Card.points, Pile,      *)
(* Player hands and points, Game.__init__ (dealing), Game.play_turn and    *)
(* Game.play_game, as run once by main().                                  *)
(*                                                                         *)
(* Python list indices are 0-based; TLA+ sequences are 1-based.  Pile      *)
(* indices (select_pile, bisect) keep the source's 0-based values and are  *)
(* shifted by one only where the board is indexed.                         *)
(***************************************************************************)
EXTENDS Integers, Sequences, FiniteSets, TLC

----------------------------------------------------------------------------
(* Program constants (src/main.py:7-11).                                   *)

DECK_SIZE == 104
NUM_PILES == 4
PILE_SIZE == 5

(* PLAYER_HAND_SIZE is 10 in the source (src/main.py:11).  It is scaled    *)
(* down here so that the whole game tree of every deal below can be        *)
(* explored; 3 is the least hand size with which two players can fill a    *)
(* pile (four cards on a seed) and then claim it.                          *)
PLAYER_HAND_SIZE == 3

(* The least number of players main() accepts, IntRange(2, ...) at         *)
(* src/main.py:193; the games modelled are played by that many players.    *)
MinNumPlayers == 2

(* self.num_players = len(player_types), line 134.                         *)
NumPlayers == MinNumPlayers

----------------------------------------------------------------------------
(* Candidate outcomes of the random source used by Game.__init__           *)
(* (random.sample at lines 140 and 144), as tables of cards: the first     *)
(* NUM_PILES entries are the sample that seeds the board, and the entries  *)
(* after them are the hands, listed card by card for the players in turn   *)
(* (the j-th card of player p is entry NUM_PILES + (j-1)*N + p).  Deal     *)
(* takes a table only if each of its samples can be drawn from what is     *)
(* left of game_deck at that point.                                        *)

DeckOrders ==
  << \* a pile of 1,2,5,6,7 (1+1+2+1+1 points) can fill up and be claimed by 3 or 4
     << 1, 20, 30, 40,   2, 5,   6, 7,   3, 4,   50, 60,   8, 9,   21, 31 >>,
     \* piles 10,20,30,40; 15 and 5 in hands; pile 10..14 can fill up and be claimed by 15
     << 40, 10, 30, 20,   11, 12,   13, 14,   15, 5,   16, 17,   6, 35,   18, 45 >>,
     \* cards of every point tier (55, 11k, 10k, 5k, other)
     << 100, 66, 60, 55,   1, 2,   56, 77,   65, 67,   70, 99,   104, 3,   75, 88 >>,
     \* every card can be appended: a game without any claim
     << 10, 20, 30, 40,   11, 12,   21, 22,   31, 41,   13, 23,   32, 42,   50, 43 >>,
     \* not an outcome: 12 is drawn for both players and 20 for a hand and the
     \* board, which random.sample cannot do once the card has left game_deck
     << 10, 20, 30, 40,   12, 12,   20, 22,   31, 41,   13, 23,   32, 42,   50, 43 >> >>

----------------------------------------------------------------------------
(* State.                                                                  *)

VARIABLES
  pc,           \* position of main(): "DEALING", "ROUND_IN_PROGRESS", "SCORING", "DONE", "ERROR"
  board,        \* Game.board: sequence of piles [cards, size, high_value]
  hands,        \* hands[p]: Player.hand of player p, a sequence of card values
  points,       \* points[p]: Player.points of player p
  turn,         \* loop variable of play_game, line 172 (rounds completed)
  idx,          \* position in self.players of the player to act, line 173
  winner_idxs,  \* result of the scoring step, line 178 (0-based player indices)
  last          \* history: the most recent play_turn call, that is the player,
                \* the card played, whether select_pile was called and what it
                \* returned, the 0-based target index, the points returned by
                \* add_value, the board before the call and the target pile
                \* after add_value

vars == << pc, board, hands, points, turn, idx, winner_idxs, last >>

Players == 1..NumPlayers

----------------------------------------------------------------------------
(* Card (src/main.py:14-35).                                               *)

(* The test for 5 comes before the test for 10.                            *)
CardPoints_FiveFirst(value) ==
  IF value % 55 = 0 THEN 7
  ELSE IF value % 11 = 0 THEN 5
  ELSE IF value % 5 = 0 THEN 2
  ELSE IF value % 10 = 0 THEN 3
  ELSE 1

(* Card.points: the tiers are tested in this order, first match wins.      *)
CardPoints(value) ==
  IF value % 55 = 0 THEN 7
  ELSE IF value % 11 = 0 THEN 5
  ELSE IF value % 10 = 0 THEN 3
  ELSE IF value % 5 = 0 THEN 2
  ELSE 1

(* sum([card.points for card in self.cards]), line 54.                     *)
RECURSIVE SumPoints(_)
SumPoints(cards) ==
  IF cards = << >> THEN 0
  ELSE CardPoints(Head(cards)) + SumPoints(Tail(cards))

----------------------------------------------------------------------------
(* Pile (src/main.py:38-62).                                               *)

(* Pile.__init__(base_value).                                              *)
NewPile(base_value) ==
  [cards |-> << base_value >>, size |-> 1, high_value |-> base_value]

(* A claim keeps the old cards below the new one instead of resetting.     *)
AddValue_NoReset(pile, value) ==
  IF pile.size >= PILE_SIZE \/ value < pile.high_value
  THEN [pile   |-> [cards |-> Append(pile.cards, value),
                    size |-> 1, high_value |-> value],
        points |-> SumPoints(pile.cards)]
  ELSE [pile   |-> [cards |-> Append(pile.cards, value),
                    size |-> pile.size + 1, high_value |-> value],
        points |-> 0]

(* The capacity test is off by one: a pile may grow to PILE_SIZE + 1.      *)
AddValue_OffByOne(pile, value) ==
  IF pile.size > PILE_SIZE \/ value < pile.high_value
  THEN [pile |-> NewPile(value), points |-> SumPoints(pile.cards)]
  ELSE [pile   |-> [cards |-> Append(pile.cards, value),
                    size |-> pile.size + 1, high_value |-> value],
        points |-> 0]

(* The test for a lower card is missing: only a full pile is reset.        *)
AddValue_NoLowerTest(pile, value) ==
  IF pile.size >= PILE_SIZE
  THEN [pile |-> NewPile(value), points |-> SumPoints(pile.cards)]
  ELSE [pile   |-> [cards |-> Append(pile.cards, value),
                    size |-> pile.size + 1, high_value |-> value],
        points |-> 0]

(* A claim is worth one point per card of the pile, whatever the cards.    *)
AddValue_FlatPoints(pile, value) ==
  IF pile.size >= PILE_SIZE \/ value < pile.high_value
  THEN [pile |-> NewPile(value), points |-> pile.size]
  ELSE [pile   |-> [cards |-> Append(pile.cards, value),
                    size |-> pile.size + 1, high_value |-> value],
        points |-> 0]

(* Pile.add_value(value): the pile after the call and the value returned.  *)
AddValue(pile, value) ==
  IF pile.size >= PILE_SIZE \/ value < pile.high_value
  THEN [pile |-> NewPile(value), points |-> SumPoints(pile.cards)]
  ELSE [pile   |-> [cards |-> Append(pile.cards, value),
                    size |-> pile.size + 1, high_value |-> value],
        points |-> 0]

----------------------------------------------------------------------------
(* Helpers of Game.play_turn (src/main.py:150-166).                        *)

(* high_values = [pile.high_value for pile in self.board], line 156.       *)
HighValues(b) == [i \in 1..Len(b) |-> b[i].high_value]

(* min(high_values), line 157.                                             *)
MinOf(a) == CHOOSE m \in {a[i] : i \in 1..Len(a)} :
              \A i \in 1..Len(a) : m <= a[i]

(* bisect.bisect(a, x) is bisect_right: binary search for the insertion    *)
(* point of x to the right of any entries equal to x; lo and hi are        *)
(* 0-based as in the library.                                              *)
RECURSIVE BisectLoop(_, _, _, _)
BisectLoop(a, x, lo, hi) ==
  IF lo < hi
  THEN LET mid == (lo + hi) \div 2
       IN  IF x < a[mid + 1]
           THEN BisectLoop(a, x, lo, mid)
           ELSE BisectLoop(a, x, mid + 1, hi)
  ELSE lo

Bisect(a, x) == BisectLoop(a, x, 0, Len(a))

(* Line 157: the test that decides between the regular move and the        *)
(* replacement of a pile.                                                  *)
IsRegularMove_AnyPile(high_values, selected_value) ==
  selected_value > high_values[Len(high_values)]

IsRegularMove(high_values, selected_value) ==
  selected_value > MinOf(high_values)

(* Lines 157-162: the 0-based index of the pile that receives the card;    *)
(* choice is what player.select_pile() returns when it is called.          *)
TargetPile_NoMinusOne(high_values, selected_value, choice) ==
  IF IsRegularMove(high_values, selected_value)
  THEN Bisect(high_values, selected_value)
  ELSE choice

TargetPile(high_values, selected_value, choice) ==
  IF IsRegularMove(high_values, selected_value)
  THEN Bisect(high_values, selected_value) - 1
  ELSE choice

(* player.points += ..., line 164.                                         *)
CreditPoints_Assign(old_points, awarded) == awarded

CreditPoints(old_points, awarded) == old_points + awarded

(* sorted(self.board, key=lambda pile: pile.high_value), line 166: a       *)
(* stable sort.  The pile at position i moves to the position counting the *)
(* piles with a lower key and the earlier piles with an equal key.         *)
SortedPosition(b, i) ==
  1 + Cardinality({j \in 1..Len(b) :
                     \/ b[j].high_value < b[i].high_value
                     \/ b[j].high_value = b[i].high_value /\ j < i})

SortedBoard_NoSort(b) == b

(* The board is rebuilt from the sorted high values: the cards below the   *)
(* top card of every pile are lost.                                        *)
SortedBoard_Rebuilt(b) ==
  [k \in 1..Len(b) |->
     NewPile(b[CHOOSE i \in 1..Len(b) : SortedPosition(b, i) = k].high_value)]

SortedBoard(b) ==
  [k \in 1..Len(b) |-> b[CHOOSE i \in 1..Len(b) : SortedPosition(b, i) = k]]

(* self.hand.remove(selected_card), lines 102 and 122: the hand without    *)
(* its i-th card (1-based position).                                       *)
RemoveCard_Keep(hand, i) == hand

RemoveCard(hand, i) == SubSeq(hand, 1, i - 1) \o SubSeq(hand, i + 1, Len(hand))

(* sorted(hand), line 68, and sorted(random.sample(...)), line 144.        *)
SortedValues(s) == SortSeq(s, LAMBDA x, y : x < y)

(* range(PLAYER_HAND_SIZE), line 172: the number of rounds of play_game.   *)
NumRounds_OneLess == PLAYER_HAND_SIZE - 1

NumRounds == PLAYER_HAND_SIZE

(* Only the first player with the least points (argmin) is reported.       *)
WinnerIdxs_First(all_points) ==
  << CHOOSE i \in 0..(Len(all_points) - 1) :
       /\ all_points[i + 1] = MinOf(all_points)
       /\ \A j \in 0..(i - 1) : all_points[j + 1] # MinOf(all_points) >>

(* Line 178: the 0-based positions of the players whose points equal the   *)
(* least points, in ascending order (argwhere(...).flatten()).             *)
WinnerIdxs(all_points) ==
  LET positions == [i \in 1..Len(all_points) |-> i - 1]
      IsMin(i)  == all_points[i + 1] = MinOf(all_points)
  IN  SelectSeq(positions, IsMin)

(* self.board[pile]: Python accepts -len..len-1 and counts a negative      *)
(* index from the end; anything else raises IndexError.                    *)
IndexInRange(b, pile) == pile >= -Len(b) /\ pile < Len(b)

PyIndex(b, pile) == IF pile < 0 THEN pile + Len(b) + 1 ELSE pile + 1

----------------------------------------------------------------------------
(* The program: main() constructs one Game and calls play_game once        *)
(* (src/main.py:206-207).                                                  *)

NoTurn ==
  [player |-> 0, value |-> 0, asked |-> FALSE, choice |-> -1, pile |-> -1,
   awarded |-> 0, board |-> << >>, result |-> NewPile(0)]

Init ==
  /\ pc = "DEALING"
  /\ board = << >>
  /\ hands = [p \in Players |-> << >>]
  /\ points = [p \in Players |-> 0]
  /\ turn = 0
  /\ idx = 1
  /\ winner_idxs = << >>
  /\ last = NoTurn

(* The sample drawn for player p (line 140) and the one drawn for the      *)
(* board (line 144) in the outcome deck.                                   *)
HandSample(deck, p) ==
  [j \in 1..PLAYER_HAND_SIZE |-> deck[NUM_PILES + (j - 1) * NumPlayers + p]]

SeedSample(deck) == SubSeq(deck, 1, NUM_PILES)

(* game_deck = set(range(1, DECK_SIZE+1)), line 135.                       *)
GameDeck == 1..DECK_SIZE

(* game_deck after the hands of the first p players were dealt and taken   *)
(* out of it (difference_update, line 141).                                *)
DeckAfter_NoUpdate(deck, p) == GameDeck

DeckAfter(deck, p) ==
  GameDeck \ {HandSample(deck, q)[j] : q \in 1..p, j \in 1..PLAYER_HAND_SIZE}

(* random.sample(population, k): k elements of the population, no element  *)
(* taken twice.                                                            *)
IsSample(s, population, k) ==
  /\ Len(s) = k
  /\ \A j \in 1..k : s[j] \in population
  /\ \A j1, j2 \in 1..k : s[j1] = s[j2] => j1 = j2

(* Game.__init__ (lines 133-145): deal PLAYER_HAND_SIZE cards to each      *)
(* player (Player.__init__ sorts the hand), then seed NUM_PILES piles with *)
(* the sorted sample of the rest of the deck.                              *)
Deal ==
  /\ pc = "DEALING"
  /\ \E k \in 1..Len(DeckOrders) :
       /\ \A p \in Players :
            IsSample(HandSample(DeckOrders[k], p), DeckAfter(DeckOrders[k], p - 1),
                     PLAYER_HAND_SIZE)
       /\ IsSample(SeedSample(DeckOrders[k]), DeckAfter(DeckOrders[k], NumPlayers),
                   NUM_PILES)
       /\ \E base_values \in {SortedValues(SeedSample(DeckOrders[k]))} :
            /\ hands' = [p \in Players |-> SortedValues(HandSample(DeckOrders[k], p))]
            /\ board' = [i \in 1..NUM_PILES |-> NewPile(base_values[i])]
  /\ points' = [p \in Players |-> 0]
  /\ pc' = "ROUND_IN_PROGRESS"
  /\ turn' = 0
  /\ idx' = 1
  /\ UNCHANGED << winner_idxs, last >>

(* One iteration of the loops of play_game (lines 172-175): play_turn of   *)
(* the player at position idx (lines 150-166).  The player picks the card  *)
(* at position i of the hand (select_value) and, when asked, the pile      *)
(* choice (select_pile), an element of Choices.  The local values of       *)
(* play_turn are bound by \E over a one-element set, which has each        *)
(* computed once.                                                          *)
PlayTurnWith(Choices) ==
  /\ pc = "ROUND_IN_PROGRESS"
  /\ turn < NumRounds
  /\ IF hands[idx] = << >>
     THEN \* random.choice of an empty hand raises IndexError
          /\ pc' = "ERROR"
          /\ UNCHANGED << board, hands, points, turn, idx, winner_idxs, last >>
     ELSE \E i \in 1..Len(hands[idx]), choice \in Choices :
           \E selected_value \in {hands[idx][i]} :
            \E high_values \in {HighValues(board)} :
             \E asked \in {~IsRegularMove(high_values, selected_value)} :
              \E pile \in {TargetPile(high_values, selected_value, choice)} :
                /\ hands' = [hands EXCEPT ![idx] = RemoveCard(hands[idx], i)]
                /\ IF IndexInRange(board, pile)
                   THEN \E res \in {AddValue(board[PyIndex(board, pile)], selected_value)} :
                         \E placed \in {[board EXCEPT ![PyIndex(board, pile)] = res.pile]} :
                           /\ points' = [points EXCEPT
                                           ![idx] = CreditPoints(points[idx], res.points)]
                           /\ board' = SortedBoard(placed)
                           /\ last' = [player |-> idx, value |-> selected_value,
                                       asked |-> asked,
                                       choice |-> IF asked THEN choice ELSE -1,
                                       pile |-> pile, awarded |-> res.points,
                                       board |-> board, result |-> res.pile]
                           /\ IF idx = NumPlayers
                              THEN turn' = turn + 1 /\ idx' = 1
                              ELSE turn' = turn /\ idx' = idx + 1
                           /\ UNCHANGED << pc, winner_idxs >>
                   ELSE \* self.board[pile] raises IndexError before add_value
                        \* is called: the program stops
                        /\ pc' = "ERROR"
                        /\ last' = [player |-> idx, value |-> selected_value,
                                    asked |-> asked,
                                    choice |-> IF asked THEN choice ELSE -1,
                                    pile |-> pile, awarded |-> 0,
                                    board |-> board, result |-> NewPile(0)]
                        /\ UNCHANGED << board, points, turn, idx, winner_idxs >>

(* What select_pile of the players of this repository returns:             *)
(* IntRange(1, NUM_PILES) - 1 (line 110), random.choice(range(NUM_PILES))  *)
(* (line 129).                                                             *)
PileChoices == 0..(NUM_PILES - 1)

PlayTurn == PlayTurnWith(PileChoices)

(* Lines 177-179: after the loops, compute the scores and the winners.     *)
ComputeScores ==
  /\ pc = "ROUND_IN_PROGRESS"
  /\ turn >= NumRounds
  /\ pc' = "SCORING"
  /\ winner_idxs' = WinnerIdxs([p \in Players |-> points[p]])
  /\ UNCHANGED << board, hands, points, turn, idx, last >>

(* Lines 180-184: print the result; play_game and main() return.           *)
Announce ==
  /\ pc = "SCORING"
  /\ pc' = "DONE"
  /\ UNCHANGED << board, hands, points, turn, idx, winner_idxs, last >>

Next == Deal \/ PlayTurn \/ ComputeScores \/ Announce

Spec == Init /\ [][Next]_vars

(* The program runs to completion: no step of main() blocks forever, each  *)
(* decision of a player returns (spec section 5).                          *)
FairSpec == Spec /\ WF_vars(Next)

----------------------------------------------------------------------------
(* The game with a Player subclass whose select_pile (the abstract method  *)
(* of lines 81-86) is not held to the range of the piles: it may answer    *)
(* any index from -(NUM_PILES + 1) to NUM_PILES.                           *)

AnyPileChoices == (-(NUM_PILES + 1))..NUM_PILES

PlayTurnAnyChoice == PlayTurnWith(AnyPileChoices)

AnyChoiceNext == Deal \/ PlayTurnAnyChoice \/ ComputeScores \/ Announce

AnyChoiceSpec == Init /\ [][AnyChoiceNext]_vars

----------------------------------------------------------------------------
(* Pile.add_value on its own: any sequence of add_value calls on a pile    *)
(* made by Pile.__init__, with values that need not be distinct.  The      *)
(* pile under test is board[1]; last records each call as in PlayTurn.     *)

PileTestValues == {3, 5, 10, 11, 22, 55, 60}

PileInit ==
  /\ pc = "PILE"
  /\ \E base_value \in PileTestValues : board = << NewPile(base_value) >>
  /\ hands = [p \in Players |-> << >>]
  /\ points = [p \in Players |-> 0]
  /\ turn = 0
  /\ idx = 1
  /\ winner_idxs = << >>
  /\ last = NoTurn

PileAddValue ==
  /\ pc = "PILE"
  /\ \E value \in PileTestValues :
       LET res == AddValue(board[1], value)
       IN  /\ board' = << res.pile >>
           /\ last' = [player |-> 1, value |-> value, asked |-> FALSE,
                       choice |-> -1, pile |-> 0, awarded |-> res.points,
                       board |-> board, result |-> res.pile]
  /\ UNCHANGED << pc, hands, points, turn, idx, winner_idxs >>

PileNext == PileAddValue

PileSpec == PileInit /\ [][PileNext]_vars

----------------------------------------------------------------------------
(* Card.points on its own: a Card of any value of the deck is made         *)
(* (last.value) and its points are read (last.awarded).                    *)

CardInit ==
  /\ pc = "CARD"
  /\ board = << >>
  /\ hands = [p \in Players |-> << >>]
  /\ points = [p \in Players |-> 0]
  /\ turn = 0
  /\ idx = 1
  /\ winner_idxs = << >>
  /\ \E value \in 1..DECK_SIZE : last = [NoTurn EXCEPT !.value = value]

CardReadPoints ==
  /\ pc = "CARD"
  /\ pc' = "CARD_POINTS"
  /\ last' = [last EXCEPT !.awarded = CardPoints(last.value)]
  /\ UNCHANGED << board, hands, points, turn, idx, winner_idxs >>

CardNext == CardReadPoints

CardSpec == CardInit /\ [][CardNext]_vars

----------------------------------------------------------------------------
(* Properties.  They read the play_turn call recorded in last: the board   *)
(* before it (last.board), the target pile before and after add_value.     *)

TurnTaken == last.player # 0

InGame == pc \in {"ROUND_IN_PROGRESS", "SCORING", "DONE"}

PileBefore == last.board[PyIndex(last.board, last.pile)]

PileAfter == last.result

PileIndices == 0..(NUM_PILES - 1)

(* C1: after Game construction and after every play_turn the board holds   *)
(* exactly NUM_PILES piles, in ascending order of high_value.              *)
C1_BoardSorted ==
  InGame =>
    /\ Len(board) = NUM_PILES
    /\ \A i \in 1..(NUM_PILES - 1) : board[i].high_value <= board[i + 1].high_value

(* A card lower than every pile replaced the last pile, which the re-sort  *)
(* then moved to the front of the board.                                   *)
C1_Witness ==
  /\ TurnTaken
  /\ last.asked
  /\ last.pile = NUM_PILES - 1
  /\ board[1].high_value = last.value
  /\ board[1].high_value < board[2].high_value

(* C2: when the played value is greater than the least high_value, the     *)
(* index computed by the bisect step is in [0, NUM_PILES) and is that of   *)
(* the pile with the greatest high_value strictly below the played value.  *)
C2_TightestFit ==
  (TurnTaken /\ \E j \in 1..Len(last.board) : last.value > last.board[j].high_value) =>
    /\ last.pile \in PileIndices
    /\ last.board[last.pile + 1].high_value < last.value
    /\ \A j \in 1..Len(last.board) :
         last.board[j].high_value < last.value
           => last.board[j].high_value <= last.board[last.pile + 1].high_value

(* A card went to a pile in the middle of the board: there are piles below *)
(* the played value that are not the tightest fit, and piles above it.     *)
C2_Witness ==
  /\ TurnTaken
  /\ ~last.asked
  /\ last.pile = 1
  /\ last.board[1].high_value < last.board[2].high_value
  /\ last.board[2].high_value < last.value
  /\ last.value < last.board[3].high_value

(* C3: select_pile is called exactly when the played value is less than or *)
(* equal to every pile's high_value, and then its answer is the target.    *)
C3_ManualOnlyWhenForced ==
  TurnTaken =>
    /\ last.asked <=> \A j \in 1..Len(last.board) : last.value <= last.board[j].high_value
    /\ last.asked => last.pile = last.choice

(* The player was asked and chose a pile that is not the first.            *)
C3_Witness ==
  /\ TurnTaken
  /\ last.asked
  /\ last.choice = 2
  /\ last.pile = 2
  /\ \A j \in 1..Len(last.board) : last.value < last.board[j].high_value

(* C4: add_value on a pile below capacity with a greater value returns 0   *)
(* and appends (size + 1, high_value = value); on a full pile or with a    *)
(* lower value it returns the sum of the points of the cards the pile held *)
(* and leaves the pile with the new value alone.                           *)
C4_AddValue ==
  TurnTaken =>
    /\ (PileBefore.size < PILE_SIZE /\ last.value > PileBefore.high_value) =>
         /\ last.awarded = 0
         /\ PileAfter.cards = Append(PileBefore.cards, last.value)
         /\ PileAfter.size = PileBefore.size + 1
         /\ PileAfter.high_value = last.value
    /\ (PileBefore.size = PILE_SIZE \/ last.value < PileBefore.high_value) =>
         /\ last.awarded = SumPoints(PileBefore.cards)
         /\ PileAfter.cards = << last.value >>
         /\ PileAfter.size = 1
         /\ PileAfter.high_value = last.value

(* A full pile was given a greater value: it is claimed for the points of  *)
(* its five cards although the value would extend it.                      *)
C4_Witness ==
  /\ TurnTaken
  /\ PileBefore.size = PILE_SIZE
  /\ last.value > PileBefore.high_value
  /\ last.awarded = SumPoints(PileBefore.cards)
  /\ last.awarded > PILE_SIZE
  /\ PileAfter = NewPile(last.value)

(* C5: every pile on the board has cards, size = len(cards), a size in     *)
(* 1..PILE_SIZE, and high_value equal to its last card.                    *)
C5_PileShape ==
  InGame =>
    \A i \in 1..Len(board) :
      /\ board[i].cards # << >>
      /\ board[i].size = Len(board[i].cards)
      /\ 1 <= board[i].size /\ board[i].size <= PILE_SIZE
      /\ board[i].high_value = board[i].cards[Len(board[i].cards)]

(* A pile has grown to capacity.                                           *)
C5_Witness ==
  /\ InGame
  /\ \E i \in 1..Len(board) : board[i].size = PILE_SIZE /\ Len(board[i].cards) = PILE_SIZE

(* C6: the cards of every pile are strictly ascending in insertion order   *)
(* (so high_value is the pile's maximum), and whenever add_value appended, *)
(* the value was strictly greater than the pile's high_value.              *)
C6_PilesAscending ==
  /\ InGame =>
       \A i \in 1..Len(board) :
         /\ \A k \in 1..(Len(board[i].cards) - 1) :
              board[i].cards[k] < board[i].cards[k + 1]
         /\ \A k \in 1..Len(board[i].cards) : board[i].cards[k] <= board[i].high_value
  /\ (TurnTaken /\ Len(PileAfter.cards) > 1) => last.value > PileBefore.high_value

(* A card lower than every pile was put on a pile with room left, which    *)
(* was reset rather than extended, next to a pile that was extended.       *)
C6_Witness ==
  /\ TurnTaken
  /\ last.asked
  /\ PileBefore.size > 1 /\ PileBefore.size < PILE_SIZE
  /\ last.value < PileBefore.high_value
  /\ PileAfter.cards = << last.value >>
  /\ \E i \in 1..Len(board) : Len(board[i].cards) >= 3

(* A step of the program that is a play_turn call: the loop of play_game   *)
(* moves on to the next player.                                            *)
TurnStep ==
  /\ pc = "ROUND_IN_PROGRESS"
  /\ pc' = "ROUND_IN_PROGRESS"
  /\ << turn, idx >>' # << turn, idx >>

(* The cards a play_turn step takes off the board: those of the target     *)
(* pile when it is left with the played card alone, none when it grew.     *)
CardsRemoved ==
  IF last'.result.cards = << last'.value >>
  THEN board[PyIndex(board, last'.pile)].cards
  ELSE << >>

(* C7: a play_turn adds to the acting player's points exactly what         *)
(* add_value returned, the points of the cards removed from the target     *)
(* pile (0 on an append), and leaves the points and the hand of every      *)
(* other player as they were.                                              *)
C7_TurnCredits ==
  [][TurnStep =>
       /\ last'.player = idx
       /\ points'[idx] = points[idx] + last'.awarded
       /\ last'.awarded = SumPoints(CardsRemoved)
       /\ \A q \in Players \ {idx} : points'[q] = points[q] /\ hands'[q] = hands[q]
    ]_vars

(* A player without points played the last card of the hand to claim the   *)
(* full pile 1,2,5,6,7, worth 1+1+2+1+1, and now has exactly 6 points,     *)
(* while another player still holds cards.                                 *)
C7_Witness ==
  /\ TurnTaken
  /\ PileBefore.size = PILE_SIZE
  /\ PileBefore.cards = << 1, 2, 5, 6, 7 >>
  /\ last.awarded = 6
  /\ points[last.player] = 6
  /\ hands[last.player] = << >>
  /\ \E q \in Players \ {last.player} : hands[q] # << >>

(* C8: every player's points start at 0 and no step of the game decreases  *)
(* them.                                                                   *)
C8_PointsMonotone ==
  /\ \A p \in Players : points[p] = 0
  /\ [][\A p \in Players : points'[p] >= points[p]]_vars

(* A player who already held points from an earlier claim was credited    *)
(* more in the last turn.                                                  *)
C8_Witness ==
  /\ TurnTaken
  /\ last.awarded > 0
  /\ points[last.player] > last.awarded

(* C9: play_game terminates; while it runs, after turn rounds every player *)
(* before position idx has played turn + 1 cards and every other player    *)
(* turn cards (one turn each per round, in player order, one card per      *)
(* turn); scoring is reached after exactly PLAYER_HAND_SIZE rounds, with   *)
(* every hand empty.                                                       *)
C9_Terminates ==
  /\ <>(pc = "DONE")
  /\ [](pc = "ROUND_IN_PROGRESS" =>
          \A p \in Players :
            Len(hands[p]) = PLAYER_HAND_SIZE - turn - (IF p < idx THEN 1 ELSE 0))
  /\ [](pc \in {"SCORING", "DONE"} =>
          /\ turn = PLAYER_HAND_SIZE
          /\ \A p \in Players : hands[p] = << >>)
  /\ [][TurnStep =>
          /\ last'.player = idx
          /\ Len(hands'[idx]) = Len(hands[idx]) - 1
          /\ << turn', idx' >> = IF idx = NumPlayers THEN << turn + 1, 1 >>
                                                     ELSE << turn, idx + 1 >>
       ]_vars

(* Scoring was reached: all the rounds were played, the last turn was the  *)
(* last player's and every hand is empty.                                  *)
C9_Witness ==
  /\ pc = "SCORING"
  /\ turn = PLAYER_HAND_SIZE
  /\ last.player = NumPlayers
  /\ \A p \in Players : hands[p] = << >>

(* C10: the program moves only DEALING -> ROUND_IN_PROGRESS -> SCORING ->  *)
(* DONE; scoring happens, once, and only when every hand has been played;  *)
(* in DONE nothing changes the board, the hands or the points.             *)
C10_Lifecycle ==
  /\ pc = "DEALING"
  /\ [][\/ pc' = pc
        \/ pc = "DEALING" /\ pc' = "ROUND_IN_PROGRESS"
        \/ pc = "ROUND_IN_PROGRESS" /\ pc' = "SCORING"
        \/ pc = "SCORING" /\ pc' = "DONE"]_vars
  /\ [][pc = "SCORING" => pc' = "DONE"]_vars
  /\ [](pc = "SCORING" => \A p \in Players : hands[p] = << >>)
  /\ [][(pc = "ROUND_IN_PROGRESS" /\ \E p \in Players : hands[p] # << >>)
          => pc' = "ROUND_IN_PROGRESS"]_vars
  /\ <>(pc = "SCORING")
  /\ [][pc = "DONE" => UNCHANGED << pc, board, hands, points >>]_vars

(* The program is done after a game in which points were given.            *)
C10_Witness ==
  /\ pc = "DONE"
  /\ winner_idxs # << >>
  /\ \E p \in Players : points[p] > 0
  /\ \A p \in Players : hands[p] = << >>

(* C11: at scoring the winners are exactly the players whose points equal  *)
(* the least points of all players: at least one, every tied player, in    *)
(* the players' turn order (winner_idxs holds 0-based positions).          *)
C11_Winners ==
  pc \in {"SCORING", "DONE"} =>
    /\ winner_idxs # << >>
    /\ {winner_idxs[k] + 1 : k \in 1..Len(winner_idxs)}
         = {p \in Players : \A q \in Players : points[p] <= points[q]}
    /\ \A k \in 1..(Len(winner_idxs) - 1) : winner_idxs[k] < winner_idxs[k + 1]

(* A tie after a game with claims: both players hold the same points,      *)
(* which are not 0, and both are winners, the first player first.          *)
C11_Witness ==
  /\ pc = "SCORING"
  /\ points[1] = points[2]
  /\ points[1] > 0
  /\ winner_idxs = << 0, 1 >>

(* C12: when select_pile answers an index outside [0, NUM_PILES) in the    *)
(* manual branch, the program stops with an error, no pile is claimed or   *)
(* modified and no points are given.                                       *)
C12_BadIndexAborts ==
  (TurnTaken /\ last.asked /\ last.choice \notin PileIndices) =>
    /\ pc = "ERROR"
    /\ board = last.board
    /\ last.awarded = 0

(* The board of the scenario of C13 before and after 15 is played.         *)
SeededBoard == << NewPile(10), NewPile(20), NewPile(30), NewPile(40) >>

BoardAfter15 ==
  << [cards |-> << 10, 15 >>, size |-> 2, high_value |-> 15],
     NewPile(20), NewPile(30), NewPile(40) >>

(* 15 played on the seeded board goes by itself to the pile of 10, whose   *)
(* high_value becomes 15, for 0 points.                                    *)
Plays15 ==
  (TurnTaken /\ last.board = SeededBoard /\ last.value = 15) =>
    /\ ~last.asked
    /\ last.pile = 0
    /\ last.awarded = 0
    /\ PileAfter.high_value = 15
    /\ board = BoardAfter15

(* 5 played next takes the manual branch.                                  *)
Plays5 ==
  (TurnTaken /\ last.board = BoardAfter15 /\ last.value = 5) =>
    /\ last.asked
    /\ last.pile = last.choice

(* C13 as stated: on the board seeded 10, 20, 30, 40 the play of 15 is     *)
(* placed on the pile of 10 for 0 points, the following play of 5 takes    *)
(* the manual branch, and claiming the pile of 10 then gives exactly       *)
(* points(10) = 3.                                                         *)
C13_AsStated ==
  /\ Plays15
  /\ Plays5
  /\ (TurnTaken /\ last.board = BoardAfter15 /\ last.value = 5
        /\ \E k \in 1..Len(PileBefore.cards) : PileBefore.cards[k] = 10)
       => last.awarded = 3

(* C13, amended: as above, but the pile of 10 holds 10 and 15 when 5 is    *)
(* played, and claiming it gives points(10) + points(15) = 5 and leaves    *)
(* it with 5 alone; claiming one of the piles 20, 30, 40 gives 3.          *)
C13_Scenario ==
  /\ Plays15
  /\ Plays5
  /\ (TurnTaken /\ last.board = BoardAfter15 /\ last.value = 5) =>
       /\ PileAfter = NewPile(5)
       /\ board[1] = NewPile(5)
       /\ last.pile = 0 => last.awarded = 5 /\ PileBefore.cards = << 10, 15 >>
       /\ last.pile \in 1..(NUM_PILES - 1) => last.awarded = 3

(* 15 was played first, then 5, and the player of 5 claimed the pile that  *)
(* holds 10.                                                               *)
C13_Witness ==
  /\ TurnTaken
  /\ last.board = BoardAfter15
  /\ last.value = 5
  /\ last.asked
  /\ last.pile = 0
  /\ points[last.player] = 5

(* All the cards held in the hands and lying in the piles, and how many    *)
(* places hold a card.                                                     *)
RECURSIVE SumLen(_, _)
SumLen(f, n) == IF n = 0 THEN 0 ELSE Len(f[n]) + SumLen(f, n - 1)

PlacesInGame ==
  SumLen(hands, NumPlayers) + SumLen([i \in 1..Len(board) |-> board[i].cards], Len(board))

CardsHeld ==
  UNION {{hands[p][j] : j \in 1..Len(hands[p])} : p \in Players}
    \cup UNION {{board[i].cards[k] : k \in 1..Len(board[i].cards)} : i \in 1..Len(board)}

(* C14: after dealing every hand holds PLAYER_HAND_SIZE values in          *)
(* ascending order, the board NUM_PILES single-card piles in ascending     *)
(* order, and all these values are distinct members of 1..DECK_SIZE; in    *)
(* every later state no value is held twice in the hands and piles.        *)
C14_DealAndDistinct ==
  /\ (pc = "ROUND_IN_PROGRESS" /\ ~TurnTaken) =>
       /\ \A p \in Players :
            /\ Len(hands[p]) = PLAYER_HAND_SIZE
            /\ \A j \in 1..(PLAYER_HAND_SIZE - 1) : hands[p][j] < hands[p][j + 1]
       /\ Len(board) = NUM_PILES
       /\ \A i \in 1..NUM_PILES : board[i] = NewPile(board[i].high_value)
       /\ \A i \in 1..(NUM_PILES - 1) : board[i].high_value < board[i + 1].high_value
       /\ CardsHeld \subseteq 1..DECK_SIZE
       /\ Cardinality(CardsHeld) = NumPlayers * PLAYER_HAND_SIZE + NUM_PILES
  /\ InGame => Cardinality(CardsHeld) = PlacesInGame

(* The deal whose board sample came out as 100, 66, 60, 55 and whose first *)
(* hand as 1, 56, 65: the piles lie in ascending order.                    *)
C14_Witness ==
  /\ pc = "ROUND_IN_PROGRESS"
  /\ ~TurnTaken
  /\ HighValues(board) = << 55, 60, 66, 100 >>
  /\ SubSeq(hands[1], 1, 3) = << 1, 56, 65 >>

Divides(d, v) == \E q \in 1..DECK_SIZE : v = d * q

(* C15: for every card value of the deck the points are 7 if 55 divides    *)
(* it, else 5 if 11 does, else 3 if 10 does, else 2 if 5 does, else 1: one *)
(* tier, the first that applies, and at least 1.                           *)
C15_PointTiers ==
  pc = "CARD_POINTS" =>
    /\ last.value \in 1..DECK_SIZE
    /\ last.awarded >= 1
    /\ Divides(55, last.value) => last.awarded = 7
    /\ (Divides(11, last.value) /\ ~Divides(55, last.value)) => last.awarded = 5
    /\ (Divides(10, last.value) /\ ~Divides(11, last.value)) => last.awarded = 3
    /\ (Divides(5, last.value) /\ ~Divides(10, last.value) /\ ~Divides(11, last.value))
         => last.awarded = 2
    /\ (~Divides(5, last.value) /\ ~Divides(11, last.value)) => last.awarded = 1

(* The points of 55, which 55, 11 and 5 all divide, were read: 7.          *)
C15_Witness ==
  /\ pc = "CARD_POINTS"
  /\ last.value = 55
  /\ last.awarded = 7

(* The points held by the players and the points of the cards lying in    *)
(* the piles of a board.                                                   *)
RECURSIVE SumOver(_, _)
SumOver(f, n) == IF n = 0 THEN 0 ELSE f[n] + SumOver(f, n - 1)

PlayerPoints(pts) == SumOver(pts, NumPlayers)

BoardPoints(b) == SumOver([i \in 1..Len(b) |-> SumPoints(b[i].cards)], Len(b))

(* C16: points are conserved.  Right after the deal the players hold no    *)
(* points and the piles hold the points of the seed cards; every turn adds *)
(* exactly the points of the card played to the sum of the players' points *)
(* and the points lying in the piles; no other step changes that sum.      *)
C16_PointConservation ==
  /\ [][pc = "DEALING" =>
          /\ PlayerPoints(points') = 0
          /\ BoardPoints(board') = SumOver([i \in 1..NUM_PILES |->
                                              CardPoints(board'[i].high_value)], NUM_PILES)
       ]_vars
  /\ [][TurnStep =>
          PlayerPoints(points') + BoardPoints(board')
            = PlayerPoints(points) + BoardPoints(board) + CardPoints(last'.value)
       ]_vars
  /\ [][(pc # "DEALING" /\ ~TurnStep) =>
          PlayerPoints(points') + BoardPoints(board')
            = PlayerPoints(points) + BoardPoints(board)
       ]_vars

(* Both players hold points from claims while cards lie on top of seeds.   *)
C16_Witness ==
  /\ TurnTaken
  /\ \A p \in Players : points[p] > 0
  /\ last.awarded > 1
  /\ \E i \in 1..Len(board) : board[i].size >= 2

(* C17: in the manual branch, whichever pile the player chooses, that pile *)
(* is claimed and left with the played card alone, also when it had room,  *)
(* and the player gets at least 1 point.                                   *)
C17_ManualAlwaysClaims ==
  (TurnTaken /\ last.asked) =>
    /\ last.pile \in PileIndices
    /\ PileAfter = NewPile(last.value)
    /\ last.awarded = SumPoints(PileBefore.cards)
    /\ last.awarded >= 1
    /\ points[last.player] >= last.awarded
    /\ board[1] = NewPile(last.value)

(* The player chose the last pile, which held two to four cards, and got   *)
(* the points of all of them.                                              *)
C17_Witness ==
  /\ TurnTaken
  /\ last.asked
  /\ last.choice = NUM_PILES - 1
  /\ PileBefore.size >= 2 /\ PileBefore.size < PILE_SIZE
  /\ last.awarded >= PileBefore.size
  /\ PileAfter.size = 1

(* C18: in the automatic branch points are given exactly when the target   *)
(* pile holds PILE_SIZE cards; then the pile is reset to the played card   *)
(* and the player gets the points of those PILE_SIZE cards; otherwise the  *)
(* card is appended for 0 points.                                          *)
C18_AutoClaimsOnlyFull ==
  (TurnTaken /\ ~last.asked) =>
    /\ last.awarded > 0 <=> PileBefore.size = PILE_SIZE
    /\ PileBefore.size = PILE_SIZE =>
         /\ Len(PileBefore.cards) = PILE_SIZE
         /\ PileAfter = NewPile(last.value)
         /\ last.awarded = SumPoints(PileBefore.cards)
    /\ PileBefore.size # PILE_SIZE =>
         /\ PileBefore.size < PILE_SIZE
         /\ PileAfter.cards = Append(PileBefore.cards, last.value)
         /\ PileAfter.size = PileBefore.size + 1
         /\ last.awarded = 0

(* 15 went by itself to the full pile 10, 11, 12, 13, 14 and claimed it    *)
(* for 3 + 5 + 1 + 1 + 1 points.                                           *)
C18_Witness ==
  /\ TurnTaken
  /\ ~last.asked
  /\ PileBefore.cards = << 10, 11, 12, 13, 14 >>
  /\ last.value = 15
  /\ last.awarded = 11
  /\ PileAfter = NewPile(15)

(* C19: the high values of the piles are pairwise distinct, so the board   *)
(* is in strictly ascending order, and the played value never equals the   *)
(* high_value of a pile.                                                   *)
C19_NoTies ==
  /\ InGame =>
       \A i \in 1..(Len(board) - 1) : board[i].high_value < board[i + 1].high_value
  /\ TurnTaken =>
       \A j \in 1..Len(last.board) : last.value # last.board[j].high_value

(* The played value was next to the high values on both sides: one above   *)
(* its target pile and one below the following pile.                       *)
C19_Witness ==
  /\ TurnTaken
  /\ ~last.asked
  /\ last.pile < NUM_PILES - 1
  /\ last.value = PileBefore.high_value + 1
  /\ last.value = last.board[last.pile + 2].high_value - 1

(* C20: a play_turn changes the cards of the target pile only: each of the *)
(* other NUM_PILES - 1 piles is on the board afterwards with the same      *)
(* cards, size and high_value, at whatever position the re-sort gives it.  *)
C20_OtherPilesKept ==
  (TurnTaken /\ pc # "ERROR") =>
    /\ Len(board) = Len(last.board)
    /\ PileAfter # PileBefore
    /\ \E i \in 1..Len(board) :
         /\ board[i] = PileAfter
         /\ \A j \in (1..Len(last.board)) \ {last.pile + 1} :
              \E k \in (1..Len(board)) \ {i} : board[k] = last.board[j]

(* The last pile was claimed and moved to the front of the board, past a   *)
(* pile of several cards that moved one place with all its cards.          *)
C20_Witness ==
  /\ TurnTaken
  /\ last.pile = NUM_PILES - 1
  /\ board[1] = PileAfter
  /\ last.board[1].size >= 3
  /\ board[2] = last.board[1]

====
